---- MODULE Spec2Model ----
(***************************************************************************)
(* Model of AnimalsHTMLParser                                              *)
(* (src/src/processors/html_parsers/animals_html_parser.py).               *)
(*                                                                         *)
(* The parsed document is a sequence of span / table elements (the         *)
(* SoupStrainer keeps nothing else).  The table that carries the target    *)
(* class has a header row `thead` (th cells, raw text) and data rows       *)
(* `trows` (each a sequence of td cells).  Text is a sequence of           *)
(* characters; an optional value is <<>> (None) or <<v>>.                  *)
(***************************************************************************)
EXTENDS Integers, Sequences, FiniteSets, TLC

VARIABLES doc, resource_url, thead, trows,
          pc, table, table_headers, i, records, origin, log, failure

vars == <<doc, resource_url, thead, trows,
          pc, table, table_headers, i, records, origin, log, failure>>

\* ------------------------------------------------------------------ bounds
MaxDoc == 3
MaxCols == 3
MaxCells == 3
MaxRows == 2
MaxKids == 3
MaxText == 2

\* --------------------------------------------------------------- optionals
None == <<>>

Some(v) == <<v>>

\* ------------------------------------------------- constants of the parser
SPAN_ID == "Terms_by_species_or_taxon"

TABLE_CLASS == "wikitable"

ANIMAL == <<"Animal">>

COLLATERAL_ADJECTIVE == <<"Collateral", " ", "adjective">>

\* ------------------------------------------------------------ text helpers
\* the character U+2014, the "none" placeholder of the table
EmDash == "U+2014"

IsSpace(c) == c \in {" ", "\n"}

RECURSIVE LStrip(_)
LStrip(s) == IF s # <<>> /\ IsSpace(Head(s)) THEN LStrip(Tail(s)) ELSE s

RECURSIVE RStrip(_)
RStrip(s) ==
    IF s # <<>> /\ IsSpace(s[Len(s)]) THEN RStrip(SubSeq(s, 1, Len(s) - 1)) ELSE s

\* str.strip(), as applied by get_text(strip=True) to a header's string
Strip(s) == RStrip(LStrip(s))

\* sep.join(strings) with sep = ","
RECURSIVE Join(_)
Join(strings) ==
    IF strings = <<>> THEN <<>>
    ELSE IF Len(strings) = 1 THEN strings[1]
    ELSE strings[1] \o <<",">> \o Join(Tail(strings))

\* str.split(","): always at least one token
RECURSIVE Split(_)
Split(s) ==
    IF \A k \in 1..Len(s) : s[k] # "," THEN <<s>>
    ELSE LET k == CHOOSE k \in 1..Len(s) :
                      /\ s[k] = ","
                      /\ \A m \in 1..(k - 1) : s[m] # ","
         IN <<SubSeq(s, 1, k - 1)>> \o Split(SubSeq(s, k + 1, Len(s)))

Range(f) == {f[k] : k \in DOMAIN f}

SeqsUpTo(S, n) == UNION {[1..m -> S] : m \in 0..n}

\* ---------------------------------------------------------- document model
Elem(tag, id, class) == [tag |-> tag, id |-> id, class |-> class]

Text(t) == [kind |-> "text", text |-> t]

Sup == [kind |-> "sup", text |-> <<"[", "1", "]">>]

Br == [kind |-> "br", text |-> <<>>]

Link(href, title) == [href |-> href, title |-> title, text |-> <<"c">>]

Cell(a, kids) == [a |-> a, kids |-> kids]

\* ------------------------------------------------------ AnimalsHTMLParser
\* a lookup that takes the first table of the class wherever it stands
get_table_anywhere(d, span_id, table_class) ==
    LET spans == {k \in DOMAIN d : d[k].tag = "span" /\ d[k].id = span_id}
        tables == {k \in DOMAIN d : d[k].tag = "table" /\ d[k].class = table_class}
    IN IF spans = {} \/ tables = {} THEN None
       ELSE Some(CHOOSE k \in tables : \A m \in tables : k <= m)

\* soup.find("span", id=span_id), then span_tag.find_next("table", class)
get_table(d, span_id, table_class) ==
    LET spans == {k \in DOMAIN d : d[k].tag = "span" /\ d[k].id = span_id}
    IN IF spans = {} THEN None
       ELSE LET span_tag == CHOOSE k \in spans : \A m \in spans : k <= m
                after == {k \in DOMAIN d : /\ k > span_tag
                                           /\ d[k].tag = "table"
                                           /\ d[k].class = table_class}
            IN IF after = {} THEN None
               ELSE Some(CHOOSE k \in after : \A m \in after : k <= m)

\* a mapping that reads the two required columns at fixed positions
get_table_headers_fixed(ths) ==
    LET headers == [k \in DOMAIN ths |-> Strip(ths[k])]
    IN [h \in Range(headers) |->
            IF h = ANIMAL THEN 0
            ELSE IF h = COLLATERAL_ADJECTIVE THEN 1
            ELSE (CHOOSE k \in DOMAIN headers :
                      /\ headers[k] = h
                      /\ \A m \in DOMAIN headers : headers[m] = h => m <= k) - 1]

\* dict(zip(headers, range(len(headers)))): zero-based, last occurrence wins
get_table_headers(ths) ==
    LET headers == [k \in DOMAIN ths |-> Strip(ths[k])]
    IN [h \in Range(headers) |->
            (CHOOSE k \in DOMAIN headers :
                 /\ headers[k] = h
                 /\ \A m \in DOMAIN headers : headers[m] = h => m <= k) - 1]

\* a check that reports every required header once one of them is missing
missing_headers_all(hdrs) ==
    IF {ANIMAL, COLLATERAL_ADJECTIVE} \subseteq DOMAIN hdrs THEN {}
    ELSE {ANIMAL, COLLATERAL_ADJECTIVE}

\* the set difference computed by _validate_animal_table_headers
missing_headers(hdrs) == {ANIMAL, COLLATERAL_ADJECTIVE} \ DOMAIN hdrs

\* BaseHTMLParser._get_full_url
get_full_url(url, href) == IF href = None THEN None ELSE Some(<<url, href[1]>>)

\* ParsedAnimalData(...): None stands for pydantic's ValidationError
ParsedAnimalData(page_url, name, adjectives) ==
    IF page_url = None \/ name = None \/ name = Some("") THEN None
    ELSE Some([page_url |-> page_url, name |-> name,
               collateral_adjectives |-> adjectives])

\* the NavigableStrings below a cell, in document order
all_strings(cell) ==
    LET RECURSIVE Of(_)
        Of(kids) == IF kids = <<>> THEN <<>>
                    ELSE (IF Head(kids).kind = "br" THEN <<>>
                          ELSE <<Head(kids).text>>) \o Of(Tail(kids))
    IN (IF cell.a # None /\ cell.a[1].text # <<>> THEN <<cell.a[1].text>>
        ELSE <<>>) \o Of(cell.kids)

\* for sup in cell.find_all("sup"): sup.decompose()
decompose_sups(cell) ==
    [cell EXCEPT !.kids = SelectSeq(@, LAMBDA n : n.kind # "sup")]

\* cell.get_text(separator=",")
get_text(cell) == Join(all_strings(cell))

\* an extraction that knows the dash but not the empty token
extract_animal_collateral_adjectives_dash(cells, hdrs) ==
    LET idx == hdrs[COLLATERAL_ADJECTIVE] + 1
    IN IF idx > Len(cells)
       THEN [exc |-> "IndexError", ret |-> None, cells |-> cells]
       ELSE LET cleaned == decompose_sups(cells[idx])
                collateral_adjectives == Split(get_text(cleaned))
            IN [exc |-> "none",
                ret |-> IF collateral_adjectives[1] # <<EmDash>>
                        THEN Some(collateral_adjectives) ELSE None,
                cells |-> [cells EXCEPT ![idx] = cleaned]]

\* _extract_animal_collateral_adjectives: exc is the exception that escapes,
\* cells the row after the sup elements were removed
extract_animal_collateral_adjectives(cells, hdrs) ==
    LET idx == hdrs[COLLATERAL_ADJECTIVE] + 1
    IN IF idx > Len(cells)
       THEN [exc |-> "IndexError", ret |-> None, cells |-> cells]
       ELSE LET cleaned == decompose_sups(cells[idx])
                collateral_adjectives == Split(get_text(cleaned))
            IN [exc |-> "none",
                ret |-> IF collateral_adjectives[1] \notin {<<EmDash>>, <<>>}
                        THEN Some(collateral_adjectives) ELSE None,
                cells |-> [cells EXCEPT ![idx] = cleaned]]

\* _extract_animal_info: AttributeError is caught and logged, the method then
\* returns None instead of a pair
extract_animal_info(cells, hdrs, url) ==
    LET idx == hdrs[ANIMAL] + 1
    IN IF idx > Len(cells)
       THEN [exc |-> "IndexError", ret |-> None, out |-> <<>>]
       ELSE LET animal_cell == cells[idx]
            IN IF animal_cell.a = None
               THEN [exc |-> "none", ret |-> None,
                     out |-> <<[msg |-> "Failed to extract animal name and URL",
                                arg |-> animal_cell]>>]
               ELSE [exc |-> "none",
                     ret |-> Some(<<get_full_url(url, animal_cell.a[1].href),
                                    animal_cell.a[1].title>>),
                     out |-> <<>>]

\* _parse_animal_row
parse_animal_row(row, hdrs, url) ==
    IF Len(row) # Cardinality(DOMAIN hdrs)
    THEN [exc |-> "none", ret |-> None, out |-> <<>>, row |-> row]
    ELSE LET info == extract_animal_info(row, hdrs, url)
         IN IF info.exc # "none"
            THEN [exc |-> info.exc, ret |-> None, out |-> info.out, row |-> row]
            ELSE IF info.ret = None
            THEN \* unpacking None into (animal_page_url, animal_name)
                 [exc |-> "TypeError", ret |-> None, out |-> info.out, row |-> row]
            ELSE LET adj == extract_animal_collateral_adjectives(row, hdrs)
                     made == ParsedAnimalData(info.ret[1][1], info.ret[1][2], adj.ret)
                 IN IF adj.exc # "none"
                    THEN [exc |-> adj.exc, ret |-> None, out |-> <<>>, row |-> row]
                    ELSE IF made = None
                    THEN [exc |-> "none", ret |-> None,
                          out |-> <<[msg |-> "Row of animal has missing arguments",
                                     arg |-> info.ret[1][2]]>>,
                          row |-> adj.cells]
                    ELSE [exc |-> "none", ret |-> made, out |-> <<>>,
                          row |-> adj.cells]

\* _parse_animal_table_rows as a function of the rows: the records yielded
\* and the exception that ends the iteration, if any
RECURSIVE parse_animal_table_rows(_, _, _)
parse_animal_table_rows(rows, hdrs, url) ==
    IF rows = <<>> THEN [records |-> <<>>, exc |-> "none"]
    ELSE LET r == parse_animal_row(Head(rows), hdrs, url)
         IN IF r.exc # "none" THEN [records |-> <<>>, exc |-> r.exc]
            ELSE LET rest == parse_animal_table_rows(Tail(rows), hdrs, url)
                 IN [records |-> (IF r.ret # None THEN <<r.ret[1]>> ELSE <<>>)
                                     \o rest.records,
                     exc |-> rest.exc]

\* parse_animal_table as a function of a table that was located
parse_animal_table(ths, rows, url) ==
    IF missing_headers(get_table_headers(ths)) # {}
    THEN [records |-> <<>>, exc |-> "ValueError"]
    ELSE parse_animal_table_rows(rows, get_table_headers(ths), url)

NoFailure == [type |-> "none", msg |-> <<>>]

NotFoundError(url) ==
    [type |-> "ValueError",
     msg |-> <<"Failed to find the animals table at ", url, ".">>]

SchemaError(missing) ==
    [type |-> "ValueError",
     msg |-> <<"The following table headers are missing: ", missing>>]

\* ------------------------------------------------------------------ inputs
Elems == {Elem("span", SPAN_ID, ""), Elem("span", "See_also", ""),
          Elem("table", "", TABLE_CLASS), Elem("table", "", "navbox")}

Docs == SeqsUpTo(Elems, MaxDoc)

FoundDoc == <<Elem("span", SPAN_ID, ""), Elem("table", "", TABLE_CLASS)>>

URLs == {"https://en.wikipedia.org/wiki/List_of_animal_names",
         "https://example.org/animals"}

\* th cells as the page writes them: padded with white space
HeaderCells == {<<"Animal", "\n">>,
                <<" ", "Collateral", " ", "adjective", "\n">>,
                <<"\n", "Young", " ">>}

Chars == {"a", " ", ",", EmDash}

Texts == SeqsUpTo(Chars, MaxText) \ {<<>>}

Nodes == {Text(t) : t \in Texts} \cup {Sup, Br}

\* child nodes of a td as the parser leaves them: never two text nodes side
\* by side
RECURSIVE KidSeqsOf(_)
KidSeqsOf(n) ==
    IF n = 0 THEN {<<>>}
    ELSE LET shorter == KidSeqsOf(n - 1)
             fits == {p \in shorter \X Nodes :
                         ~(/\ p[1] # <<>>
                           /\ p[1][Len(p[1])].kind = "text"
                           /\ p[2].kind = "text")}
         IN shorter \cup {Append(p[1], p[2]) : p \in fits}

KidSeqs == KidSeqsOf(MaxKids)

AdjCells == {Cell(None, ks) : ks \in KidSeqs}

AnimalCells ==
    {Cell(None, <<Text(<<"a">>)>>)} \cup
    {Cell(Some(Link(h, t)), <<>>) :
        h \in {None, Some("/wiki/Cat")}, t \in {None, Some(""), Some("Cat")}}

PlainCell == Cell(None, <<Text(<<"a">>)>>)

LinkCell == Cell(Some(Link(Some("/wiki/Cat"), Some("Cat"))), <<>>)

BasicRows == SeqsUpTo({PlainCell, LinkCell}, MaxCells)

PlainHeaders ==
    <<<<"Animal", "\n">>, <<" ", "Collateral", " ", "adjective", "\n">>>>

\* header rows of the row and cell scenarios: the plain one, the swapped one,
\* one with a third column and one that repeats the adjective header
RowHeaders ==
    {PlainHeaders,
     <<PlainHeaders[2], PlainHeaders[1]>>,
     <<<<"\n", "Young", " ">>, PlainHeaders[2], PlainHeaders[1]>>,
     <<PlainHeaders[1], PlainHeaders[2], PlainHeaders[2]>>}

\* documents of every shape around one ordinary table
InitDocs ==
    /\ doc \in Docs
    /\ resource_url \in URLs
    /\ thead = PlainHeaders
    /\ trows = <<<<LinkCell, PlainCell>>>>

\* header rows of every shape over a table of at most one data row
InitHeaders ==
    /\ doc = FoundDoc
    /\ resource_url \in URLs
    /\ thead \in SeqsUpTo(HeaderCells, MaxCols)
    /\ trows \in SeqsUpTo(BasicRows, 1)

\* data rows of every shape under a few header rows
InitRows ==
    /\ doc = FoundDoc
    /\ resource_url = CHOOSE u \in URLs : TRUE
    /\ thead \in RowHeaders
    /\ trows \in SeqsUpTo(BasicRows, MaxRows)

\* animal cells of every shape in the first of two rows
InitAnimalCells ==
    /\ doc = FoundDoc
    /\ resource_url = CHOOSE u \in URLs : TRUE
    /\ thead \in RowHeaders
    /\ \E ac \in AnimalCells, dc \in {PlainCell, Cell(None, <<>>)} :
           trows = <<<<ac, dc>>, <<LinkCell, PlainCell>>>>

\* adjective cells of every shape beside a linked animal cell
InitAdjCells ==
    /\ doc = FoundDoc
    /\ resource_url = CHOOSE u \in URLs : TRUE
    /\ thead = PlainHeaders
    /\ \E dc \in AdjCells : trows = <<<<LinkCell, dc>>>>

Init ==
    /\ InitDocs \/ InitHeaders \/ InitRows \/ InitAnimalCells \/ InitAdjCells
    /\ pc = "Created"
    /\ table = None
    /\ table_headers = None
    /\ i = 0
    /\ records = <<>>
    /\ origin = <<>>
    /\ log = <<>>
    /\ failure = NoFailure

\* ----------------------------------------------------------------- actions
input == <<doc, resource_url, thead>>

\* parse_animal_table: _get_table returned a table
LocateTable ==
    /\ pc = "Created"
    /\ get_table(doc, SPAN_ID, TABLE_CLASS) # None
    /\ table' = get_table(doc, SPAN_ID, TABLE_CLASS)
    /\ pc' = "TableLocated"
    /\ UNCHANGED <<input, trows, table_headers, i, records, origin, log, failure>>

\* parse_animal_table: _get_table returned None
TableNotFound ==
    /\ pc = "Created"
    /\ get_table(doc, SPAN_ID, TABLE_CLASS) = None
    /\ pc' = "Failed"
    /\ failure' = NotFoundError(resource_url)
    /\ UNCHANGED <<input, trows, table, table_headers, i, records, origin, log>>

\* _get_table_headers, then _validate_animal_table_headers passes
ValidateHeaders ==
    /\ pc = "TableLocated"
    /\ missing_headers(get_table_headers(thead)) = {}
    /\ table_headers' = Some(get_table_headers(thead))
    /\ pc' = "HeadersValidated"
    /\ UNCHANGED <<input, trows, table, i, records, origin, log, failure>>

\* _get_table_headers, then _validate_animal_table_headers raises
HeadersMissing ==
    /\ pc = "TableLocated"
    /\ missing_headers(get_table_headers(thead)) # {}
    /\ table_headers' = Some(get_table_headers(thead))
    /\ pc' = "Failed"
    /\ failure' = SchemaError(missing_headers(get_table_headers(thead)))
    /\ UNCHANGED <<input, trows, table, i, records, origin, log>>

\* _parse_animal_table_rows: table.find_all("tr")[1:]
StartRows ==
    /\ pc = "HeadersValidated"
    /\ pc' = "Streaming"
    /\ i' = 0
    /\ UNCHANGED <<input, trows, table, table_headers, records, origin, log, failure>>

\* one turn of the loop of _parse_animal_table_rows
ParseRow ==
    /\ pc = "Streaming"
    /\ i < Len(trows)
    /\ LET r == parse_animal_row(trows[i + 1], table_headers[1], resource_url)
       IN /\ i' = i + 1
          /\ trows' = [trows EXCEPT ![i + 1] = r.row]
          /\ log' = log \o r.out
          /\ IF r.exc # "none"
             THEN /\ pc' = "Failed"
                  /\ failure' = [type |-> r.exc, msg |-> <<>>]
                  /\ UNCHANGED <<records, origin>>
             ELSE /\ UNCHANGED <<pc, failure>>
                  /\ IF r.ret # None
                     THEN /\ records' = Append(records, r.ret[1])
                          /\ origin' = Append(origin, i + 1)
                     ELSE UNCHANGED <<records, origin>>
    /\ UNCHANGED <<input, table, table_headers>>

\* the loop of _parse_animal_table_rows runs out of rows
Finish ==
    /\ pc = "Streaming"
    /\ i = Len(trows)
    /\ pc' = "Done"
    /\ UNCHANGED <<input, trows, table, table_headers, i, records, origin, log, failure>>

Next ==
    \/ LocateTable
    \/ TableNotFound
    \/ ValidateHeaders
    \/ HeadersMissing
    \/ StartRows
    \/ ParseRow
    \/ Finish

Spec == Init /\ [][Next]_vars

\* ------------------------------------------------------------------ claims
IsAnchor(e) == e.tag = "span" /\ e.id = SPAN_ID

IsTarget(e) == e.tag = "table" /\ e.class = TABLE_CLASS

NoTableAfterAnchor ==
    ~\E j, k \in DOMAIN doc : j < k /\ IsAnchor(doc[j]) /\ IsTarget(doc[k])

\* C3: when the anchor span is absent, or no table of the required class
\* follows it, the call fails with an error whose message names
\* resource_url, and no record was yielded before the failure.
MissingTableFatal ==
    (NoTableAfterAnchor /\ pc # "Created") =>
        /\ pc = "Failed"
        /\ failure.type = "ValueError"
        /\ failure.msg[2] = resource_url
        /\ records = <<>>
        /\ i = 0

\* a target table stands before the anchor only, and the call has failed
MissingTableWitness ==
    /\ pc = "Failed"
    /\ NoTableAfterAnchor
    /\ \E j, k \in DOMAIN doc : j < k /\ IsTarget(doc[j]) /\ IsAnchor(doc[k])

RequiredMissing ==
    {ANIMAL, COLLATERAL_ADJECTIVE} \ {Strip(thead[k]) : k \in DOMAIN thead}

\* C4: when the header row of the located table lacks a required header, the
\* call fails with an error whose message names exactly the missing required
\* headers, before any row is parsed, any record yielded or any row
\* diagnostic logged.
MissingHeaderFatal ==
    (table # None /\ RequiredMissing # {} /\ pc \notin {"Created", "TableLocated"}) =>
        /\ pc = "Failed"
        /\ failure.type = "ValueError"
        /\ failure.msg[2] = RequiredMissing
        /\ i = 0
        /\ records = <<>>
        /\ log = <<>>

\* the animal header is there, the adjective header is not, rows are waiting
MissingHeaderWitness ==
    /\ pc = "Failed"
    /\ table # None
    /\ RequiredMissing = {COLLATERAL_ADJECTIVE}
    /\ Len(thead) >= 2
    /\ trows # <<>>

Perms(n) == {p \in [1..n -> 1..n] : \A j, k \in 1..n : p[j] = p[k] => j = k}

Permute(seq, p) == [k \in DOMAIN seq |-> seq[p[k]]]

FullRows == \A k \in DOMAIN trows : Len(trows[k]) = Len(thead)

\* C5: applying one permutation to the header cells and to the cells of every
\* row leaves the sequence of yielded records (and the way the call ends)
\* unchanged.
HeaderOrderIndependence ==
    (pc \in {"Done", "Failed"} /\ table # None /\ FullRows) =>
        \A p \in Perms(Len(thead)) :
            LET out == parse_animal_table(Permute(thead, p),
                                          [k \in DOMAIN trows |-> Permute(trows[k], p)],
                                          resource_url)
            IN /\ out.records = records
               /\ out.exc = failure.type

\* records were yielded from a table whose adjective column stands before
\* its animal column
HeaderOrderWitness ==
    /\ pc = "Done"
    /\ FullRows
    /\ records # <<>>
    /\ table_headers[1][ANIMAL] > table_headers[1][COLLATERAL_ADJECTIVE]

\* the adjective cell a record was read from, as the extraction left it
AdjCellOf(k) == trows[origin[k]][table_headers[1][COLLATERAL_ADJECTIVE] + 1]

\* the text before the first comma
FirstToken(text) ==
    LET commas == {k \in 1..Len(text) : text[k] = ","}
    IN IF commas = {} THEN text
       ELSE SubSeq(text, 1, (CHOOSE k \in commas : \A m \in commas : k <= m) - 1)

\* C7: the adjectives of a record are absent exactly when the first token of
\* the adjective cell's text is the dash or the empty string; otherwise they
\* are the whole, non-empty list of comma-separated tokens.
PlaceholderSuppression ==
    \A k \in DOMAIN records :
        LET text == get_text(decompose_sups(AdjCellOf(k)))
            adjectives == records[k].collateral_adjectives
        IN /\ adjectives = None <=> FirstToken(text) \in {<<EmDash>>, <<>>}
           /\ adjectives # None =>
                /\ Len(adjectives[1]) >= 1
                /\ Join(adjectives[1]) = text
                /\ \A t \in Range(adjectives[1]) : "," \notin Range(t)

\* a record without adjectives from a cell that reads ",a": the first token
\* is empty, the rest is not
PlaceholderWitness ==
    \E k \in DOMAIN records :
        /\ records[k].collateral_adjectives = None
        /\ get_text(decompose_sups(AdjCellOf(k))) = <<",", "a">>

\* C6: the emitted adjective list is the cell's text without its sup
\* elements, split on the comma in order, every element trimmed; no emitted
\* adjective has leading or trailing white space.
AdjectivesTrimmed ==
    \A k \in DOMAIN records :
        LET tokens == Split(get_text(decompose_sups(AdjCellOf(k))))
            adjectives == records[k].collateral_adjectives
        IN adjectives # None =>
             /\ adjectives[1] = [j \in DOMAIN tokens |-> Strip(tokens[j])]
             /\ \A t \in Range(adjectives[1]) : Strip(t) = t

\* the row the loop is about to parse passes the cell-count check and has
\* its animal cell
RowReady ==
    /\ pc = "Streaming"
    /\ i < Len(trows)
    /\ Len(trows[i + 1]) = Cardinality(DOMAIN table_headers[1])
    /\ table_headers[1][ANIMAL] < Len(trows[i + 1])

NextAnimalCell == trows[i + 1][table_headers[1][ANIMAL] + 1]

\* C8: every yielded record has a name and a page URL; a row whose link
\* lacks the title or the target is skipped with one diagnostic and the
\* loop goes on to the later rows.
RecordInvariant ==
    [][/\ \A k \in DOMAIN records' :
              records'[k].name # None /\ records'[k].page_url # None
       /\ (/\ RowReady
           /\ NextAnimalCell.a # None
           /\ (NextAnimalCell.a[1].title = None \/ NextAnimalCell.a[1].href = None))
          => /\ pc' = "Streaming"
             /\ i' = i + 1
             /\ records' = records
             /\ Len(log') = Len(log) + 1]_vars

\* C1: a row that passes the cell-count check but has no hyperlink in its
\* animal cell is omitted with exactly one diagnostic, the call does not
\* fail and goes on to the later rows.
MissingLinkSkip ==
    [][(RowReady /\ NextAnimalCell.a = None)
          => /\ pc' = "Streaming"
             /\ failure' = NoFailure
             /\ i' = i + 1
             /\ records' = records
             /\ Len(log') = Len(log) + 1]_vars

\* rows with as many td cells as the header row has th cells and a hyperlink
\* in the animal cell
LinkedRows ==
    {k \in DOMAIN trows :
        /\ Len(trows[k]) = Len(thead)
        /\ table_headers[1][ANIMAL] < Len(trows[k])
        /\ trows[k][table_headers[1][ANIMAL] + 1].a # None}

\* C2: when both required headers are there, the call yields exactly one
\* record for each row with a hyperlink and a matching cell count, and none
\* for any other row.
OneRecordPerLinkedRow ==
    (pc \in {"Done", "Failed"} /\ table # None /\ RequiredMissing = {}) =>
        /\ Range(origin) = LinkedRows
        /\ Len(origin) = Cardinality(LinkedRows)

Transitions ==
    {<<"Created", "TableLocated">>, <<"Created", "Failed">>,
     <<"TableLocated", "HeadersValidated">>, <<"TableLocated", "Failed">>,
     <<"HeadersValidated", "Streaming">>, <<"Streaming", "Streaming">>,
     <<"Streaming", "Done">>}

\* C9: the call only moves Created -> TableLocated -> HeadersValidated ->
\* Streaming -> Done, fails only from Created (not found) or TableLocated
\* (schema), and no row moves it from Streaming to a failed state.
StateMachine ==
    [][/\ <<pc, pc'>> \in Transitions
       /\ pc' = "Failed" =>
            \/ pc = "Created" /\ failure' = NotFoundError(resource_url)
            \/ pc = "TableLocated" /\ failure' = SchemaError(RequiredMissing)]_vars

\* C10: for a validated header mapping and a row that passes the cell-count
\* check, the positions of the animal and adjective columns are indexes into
\* the row's cells and no lookup goes out of range.
IndexesInRange ==
    (table_headers # None /\ RequiredMissing = {}) =>
        /\ failure.type # "IndexError"
        /\ \A k \in 1..i :
               Len(trows[k]) = Cardinality(DOMAIN table_headers[1]) =>
                   /\ table_headers[1][ANIMAL] < Len(trows[k])
                   /\ table_headers[1][COLLATERAL_ADJECTIVE] < Len(trows[k])

====
